---- MODULE Spec2Model ----
(***************************************************************************)
(* Laghos: the adaptive explicit time-stepping loop of main(), the          *)
(* partial-assembly mass operator kMassPAOperator and the density / force   *)
(* integrators, as state machines.                                          *)
(*                                                                          *)
(* Times (t, dt, t_final, dt_est) are C++ doubles.  They are modelled as    *)
(* exact rationals <<num, den>> (den > 0, lowest terms) measured in units   *)
(* of std::numeric_limits<double>::epsilon(), so that the floor test        *)
(* "dt < epsilon" is "dt < 1" and the factors 0.85, 1.25 and 1.02 are the   *)
(* rationals 17/20, 5/4 and 51/50.                                          *)
(***************************************************************************)
EXTENDS Integers, Sequences, FiniteSets, TLC

(***************************************************************************)
(* Bounds of the model.                                                    *)
(***************************************************************************)
\* t_final ranges over 1 .. MaxTFinal (in units of epsilon).
MaxTFinal == 3
\* the initial time-step estimate ranges over 1 .. MaxDt0 (units of epsilon).
MaxDt0 == 3
\* zones of the mesh; a zone has two degrees of freedom, shared with its
\* neighbours, so a field has NZones + 1 degrees of freedom.
NZones == 2
\* quadrature points per zone (IntRule->GetNPoints()).
NQP == 2
\* pinned-dof counts of the other partitions sum to 0 .. MaxOtherCount.
MaxOtherCount == 1
\* max_tsteps ranges over -1 .. MaxCap.
MaxCap == 2
\* the loop is followed for at most MaxAttempts integrator invocations.
MaxAttempts == 5
\* the partitions (MPI ranks) of a parallel run are 1 .. NParts.
NParts == 2
\* each partition calls SetEssentialTrueDofs NCalls times before the loop.
NCalls == 2

(***************************************************************************)
(* Rational arithmetic standing for double arithmetic.                     *)
(***************************************************************************)
RECURSIVE GCD(_, _)
GCD(a, b) == IF b = 0 THEN a ELSE GCD(b, a % b)

Abs(n) == IF n < 0 THEN -n ELSE n

\* n/d in lowest terms with a positive denominator.
R(n, d) ==
    LET g == GCD(Abs(n), Abs(d))
        s == IF d < 0 THEN -1 ELSE 1
    IN  <<(s * n) \div g, (s * d) \div g>>

RAdd(a, b) ==
    LET g == GCD(a[2], b[2])
    IN  R(a[1] * (b[2] \div g) + b[1] * (a[2] \div g), (a[2] \div g) * b[2])

RSub(a, b) == RAdd(a, <<-b[1], b[2]>>)

RMul(a, b) ==
    LET g1 == GCD(Abs(a[1]), b[2])
        g2 == GCD(Abs(b[1]), a[2])
    IN  R((a[1] \div g1) * (b[1] \div g2), (a[2] \div g2) * (b[2] \div g1))

RLess(a, b) ==
    LET g == GCD(a[2], b[2])
    IN  a[1] * (b[2] \div g) < b[1] * (a[2] \div g)

RLeq(a, b) == ~RLess(b, a)

Zero == R(0, 1)

\* std::numeric_limits<double>::epsilon(), the unit of time of the model.
Epsilon == R(1, 1)
\* dt *= 0.85
ShrinkFactor == R(17, 20)
\* dt_est > 1.25 * dt
GrowThreshold == R(5, 4)
\* dt *= 1.02
GrowFactor == R(51, 50)

(***************************************************************************)
(* State.                                                                  *)
(***************************************************************************)
VARIABLES
    \* main(): position in the time loop
    \*   "start"    before "dt = hydro.GetTimeStepEstimate(S)" of line 511
    \*   "loop"     at the loop test "!last_step" of the for statement
    \*   "step"     before ode_solver->Step(S, t, dt)
    \*   "estimate" before hydro.GetTimeStepEstimate(S)
    \*   "decide"   before "if (dt_est < dt)"
    \*   "done"     after the loop, "aborted" after MFEM_ABORT,
    \*   "failed"   after a mass solve of hydro.Mult did not converge
    pc,
    t, dt, t_old, dt_est,      \* doubles of main()
    S, S_old,                  \* the state vector and its saved copy
    last_step, steps, ti,      \* loop flags and counters of main()
    t_final, max_tsteps,       \* command-line options -tf and -ms
    cacheValid, cacheSrc,      \* the hydro operator's quadrature cache
    refreshes,                 \* Refresh computations performed so far
    converged,                 \* the mass solves of the last Mult converged
    rho0DetJ0w, h0,            \* QuadratureData: invariant weights, size
    stressJinvT,               \* QuadratureData: the stress cache content
    elvect,                    \* elvect[e]: DensityIntegrator output, zone e
    elmat,                     \* elmat[e]: ForceIntegrator output of zone e
    \* kMassPAOperator: members
    massOperator, ess_tdofs_count, ess_tdofs, distX,
    \* kMassPAOperator: the call in progress or last returned
    \*   "idle", "Setup", "SetEssentialTrueDofs", "EliminateRHS:call",
    \*   "EliminateRHS", "Mult:call", "Mult"; and its vector arguments
    mpc, x, y, b,
    \* "none", or how the process died: "assert" (a failed assert) or
    \* "segv" (a null pointer dereference)
    mfault,
    \* a parallel run: rk[p] holds the locals of partition p, comm[p] what
    \* p has contributed to the collective it is blocked in, job tells
    \* whether the MPI job is "running" or was "aborted"
    rk, comm, job

ctlVars == <<pc, t, dt, t_old, dt_est, S, S_old, last_step, steps, ti,
             t_final, max_tsteps>>
hydroVars == <<cacheValid, cacheSrc, refreshes, converged>>
qdataVars == <<rho0DetJ0w, h0, stressJinvT>>
outVars == <<elvect, elmat>>
massVars == <<massOperator, ess_tdofs_count, ess_tdofs, distX, mpc, x, y, b,
              mfault>>
parVars == <<rk, comm, job>>
vars == <<ctlVars, hydroVars, qdataVars, outVars, massVars, parVars>>

(***************************************************************************)
(* The explicit integrator, ode_solver->Step(S, t, dt).  The state vector  *)
(* is opaque to the loop: it is modelled by the sequence of step sizes     *)
(* that were applied to the initial state, so that two state vectors are   *)
(* equal exactly when they were produced by the same steps.                *)
(***************************************************************************)
S0 == <<>>

Advance(s, d) == Append(s, d)

(***************************************************************************)
(* The hydro operator's cache (QuadratureCache of the specification).      *)
(* cacheSrc is the state vector the cache content was computed from.       *)
(***************************************************************************)
\* the cache content before the first Refresh
NoState == << <<-1, 1>> >>

\* a cache that recomputes on every call
EnsureFreshSrc_Eager(s) == s

\* EnsureFresh: refresh from s only if the cache is stale, then mark valid.
EnsureFreshSrc(s) == IF cacheValid THEN cacheSrc ELSE s

\* EnsureFresh(s): Refresh is performed only if cacheValid is false.
EnsureFresh(s) ==
    /\ cacheSrc' = EnsureFreshSrc(s)
    /\ cacheValid' = TRUE
    /\ refreshes' = refreshes + (IF cacheValid THEN 0 ELSE 1)

\* hydro.ResetQuadratureData(): Invalidate.
ResetQuadratureData ==
    /\ cacheValid' = FALSE
    /\ cacheSrc' = cacheSrc
    /\ refreshes' = refreshes

(***************************************************************************)
(* Inputs.                                                                 *)
(***************************************************************************)
TFinals == {R(k, 1) : k \in 1..MaxTFinal}
Dt0s == {R(k, 1) : k \in 1..MaxDt0}
MaxSteps == -1..MaxCap
\* the estimate returned after an attempt with step size d: below d, equal
\* to d, between d and 1.25 d, equal to 1.25 d and above 1.25 d.
Estimates(d) ==
    {RMul(R(k, 4), d) : k \in {3, 4, 5, 6}} \cup {RMul(R(6, 5), d)}
\* the value of the uninitialized double t_old before its first assignment
Indeterminate == {R(0, 1), R(7, 1)}

(***************************************************************************)
(* main(), lines 427-514: the state before the first time-step estimate.   *)
(* dt is declared without a value (line 427) and is not read before line   *)
(* 511 assigns it.                                                         *)
(***************************************************************************)
InitCtl ==
    /\ pc = "start"
    /\ t = Zero
    /\ t_old \in Indeterminate
    /\ dt = Zero
    /\ dt_est = Zero
    /\ S = S0
    /\ S_old = S0
    /\ last_step = FALSE
    /\ steps = 0
    /\ ti = 1
    /\ t_final \in TFinals
    /\ max_tsteps \in MaxSteps

\* the hydro operator after construction: CacheStale
InitHydro ==
    /\ cacheValid = FALSE
    /\ cacheSrc = NoState
    /\ refreshes = 0
    /\ converged = TRUE

(***************************************************************************)
(* main(), lines 518-528: the loop test and the head of the body.          *)
(***************************************************************************)
\* the time loop touches neither the quadrature data nor the mass operator
CtlFrame == UNCHANGED <<qdataVars, outVars, massVars, parVars>>

\* lines 509-511: dt = hydro.GetTimeStepEstimate(S) before the loop
InitialEstimate(est) ==
    /\ pc = "start"
    /\ EnsureFresh(S)
    /\ dt' = est
    /\ pc' = "loop"
    /\ UNCHANGED <<t, t_old, dt_est, S, S_old, last_step, steps, ti, t_final,
                   max_tsteps, converged>>
    /\ CtlFrame

\* line 520: if (t + dt >= t_final)
ReachesFinalTime(tt, d, tf) == RLeq(tf, RAdd(tt, d))

\* a clamp that is missing
ClampedDt_None(tt, d, tf) == d

\* lines 520-522: dt = t_final - t when the step would reach t_final
ClampedDt(tt, d, tf) ==
    IF ReachesFinalTime(tt, d, tf) THEN RSub(tf, tt) ELSE d

BeginIteration ==
    /\ pc = "loop"
    /\ ~last_step
    /\ steps < MaxAttempts
    /\ dt' = ClampedDt(t, dt, t_final)
    /\ last_step' = (ReachesFinalTime(t, dt, t_final) \/ steps = max_tsteps)
    /\ S_old' = S
    /\ t_old' = t
    /\ pc' = "step"
    /\ UNCHANGED <<t, dt_est, S, steps, ti, t_final, max_tsteps, hydroVars>>
    /\ CtlFrame

\* the loop test fails: the loop ends.
ExitLoop ==
    /\ pc = "loop"
    /\ last_step
    /\ pc' = "done"
    /\ UNCHANGED <<t, dt, t_old, dt_est, S, S_old, last_step, steps, ti,
                   t_final, max_tsteps, hydroVars>>
    /\ CtlFrame

(***************************************************************************)
(* main(), lines 532-533: ode_solver->Step(S, t, dt); steps++.             *)
(* The integrator calls hydro.Mult, which refreshes a stale cache from the *)
(* state it is given and then solves with the two mass operators; conv     *)
(* tells whether these solves converged within the iteration cap.  A solve *)
(* that did not converge is a failure of Mult that main() does not handle: *)
(* the run ends there.                                                     *)
(***************************************************************************)
\* a Mult that returns normally from a solve that did not converge
OdeStep_IgnoresFailure(conv) ==
    /\ pc = "step"
    /\ EnsureFresh(S)
    /\ converged' = conv
    /\ S' = Advance(S, dt)
    /\ t' = RAdd(t, dt)
    /\ steps' = steps + 1
    /\ pc' = "estimate"
    /\ UNCHANGED <<dt, t_old, dt_est, S_old, last_step, ti, t_final, max_tsteps>>
    /\ CtlFrame

OdeStep(conv) ==
    /\ pc = "step"
    /\ EnsureFresh(S)
    /\ converged' = conv
    /\ IF conv
       THEN /\ S' = Advance(S, dt)
            /\ t' = RAdd(t, dt)
            /\ steps' = steps + 1
            /\ pc' = "estimate"
       ELSE /\ pc' = "failed"
            /\ UNCHANGED <<S, t, steps>>
    /\ UNCHANGED <<dt, t_old, dt_est, S_old, last_step, ti, t_final, max_tsteps>>
    /\ CtlFrame

(***************************************************************************)
(* main(), line 536: const double dt_est = hydro.GetTimeStepEstimate(S).   *)
(***************************************************************************)
GetTimeStepEstimate(est) ==
    /\ pc = "estimate"
    /\ EnsureFresh(S)
    /\ dt_est' = est
    /\ pc' = "decide"
    /\ UNCHANGED <<t, dt, t_old, S, S_old, last_step, steps, ti, t_final,
                   max_tsteps, converged>>
    /\ CtlFrame

(***************************************************************************)
(* main(), lines 537-551: adaptive time step control.                      *)
(***************************************************************************)
\* the test written with <= instead of <
StepRejected_Leq(est, d) == RLeq(est, d)

\* line 537: if (dt_est < dt)
StepRejected(est, d) == RLess(est, d)

\* the step size left as it is on a rejection
Shrink_Identity(d) == d

\* line 541: dt *= 0.85
Shrink(d) == RMul(d, ShrinkFactor)

\* line 542: if (dt < std::numeric_limits<double>::epsilon())
BelowFloor(d) == RLess(d, Epsilon)

\* line 551: else if (dt_est > 1.25 * dt) { dt *= 1.02; }
NextDt(est, d) ==
    IF RLess(RMul(GrowThreshold, d), est) THEN RMul(d, GrowFactor) ELSE d

\* line 548: if (steps < max_tsteps) { last_step = false; }
LastStepAfterReject(ls, n, cap) == IF n < cap THEN FALSE ELSE ls

\* a "continue" that skips the increment of the for statement
TiAfterReject_NoIncrement(i) == i - 1

\* line 549 "ti--; continue;" followed by the for statement's "ti++" (line 518)
TiAfterReject(i) == (i - 1) + 1

\* a rollback that leaves the cache marked valid
Reject_NoInvalidate ==
    /\ pc = "decide"
    /\ StepRejected(dt_est, dt)
    /\ dt' = Shrink(dt)
    /\ IF BelowFloor(dt')
       THEN /\ pc' = "aborted"
            /\ UNCHANGED <<t, S, last_step, ti, hydroVars>>
       ELSE /\ t' = t_old
            /\ S' = S_old
            /\ UNCHANGED hydroVars
            /\ last_step' = LastStepAfterReject(last_step, steps, max_tsteps)
            /\ ti' = TiAfterReject(ti)
            /\ pc' = "loop"
    /\ UNCHANGED <<t_old, dt_est, S_old, steps, t_final, max_tsteps>>
    /\ CtlFrame

\* lines 537-550
Reject ==
    /\ pc = "decide"
    /\ StepRejected(dt_est, dt)
    /\ dt' = Shrink(dt)
    /\ IF BelowFloor(dt')
       THEN /\ pc' = "aborted"
            /\ UNCHANGED <<t, S, last_step, ti, hydroVars>>
       ELSE /\ t' = t_old
            /\ S' = S_old
            /\ ResetQuadratureData
            /\ last_step' = LastStepAfterReject(last_step, steps, max_tsteps)
            /\ ti' = TiAfterReject(ti)
            /\ pc' = "loop"
    /\ UNCHANGED <<t_old, dt_est, S_old, steps, t_final, max_tsteps,
                   converged>>
    /\ CtlFrame

\* lines 551-656, then the for statement's "ti++".
Accept ==
    /\ pc = "decide"
    /\ ~StepRejected(dt_est, dt)
    /\ dt' = NextDt(dt_est, dt)
    /\ ti' = ti + 1
    /\ pc' = "loop"
    /\ UNCHANGED <<t, t_old, dt_est, S, S_old, last_step, steps, t_final,
                   max_tsteps, hydroVars>>
    /\ CtlFrame

NextCtl ==
    \/ \E est \in Dt0s : InitialEstimate(est)
    \/ BeginIteration
    \/ \E conv \in BOOLEAN : OdeStep(conv)
    \/ \E est \in Estimates(dt) : GetTimeStepEstimate(est)
    \/ Reject
    \/ Accept
    \/ ExitLoop


(***************************************************************************)
(* Vectors and arrays.  mfem::Vector is a function on 0 .. NDofs-1 (the    *)
(* empty function for a vector of size 0), mfem::Array<int> a sequence.    *)
(***************************************************************************)
NDofs == NZones + 1
Dofs == 0..(NDofs - 1)
\* the entries of the vectors a caller passes
Vals == {0, 1}
Vectors == [Dofs -> Vals]
EmptyVector == [i \in {} |-> 0]
NQuad == NZones * NQP
QuadPoints == 0..(NQuad - 1)

RECURSIVE SumOver(_, _)
\* the sum of f[i] over i in the finite set I
SumOver(f, I) ==
    IF I = {} THEN 0
    ELSE LET i == CHOOSE k \in I : TRUE IN f[i] + SumOver(f, I \ {i})

Range(a) == {a[i] : i \in 1..Len(a)}

\* what SetSize leaves in a freshly sized array: never read while
\* ess_tdofs_count is 0.
UninitializedArray(n) == [i \in 1..n |-> -1]

RECURSIVE SetSubVector(_, _, _)
\* mfem::Vector::SetSubVector(dofs, value): v(dofs[i]) = value for every i.
SetSubVector(v, dofs, value) ==
    IF dofs = <<>> THEN v
    ELSE SetSubVector([v EXCEPT ![Head(dofs)] = value], Tail(dofs), value)

(***************************************************************************)
(* Basis functions at the quadrature points: the two linear shape          *)
(* functions of a zone, scaled to integers.  Zone e owns the degrees of    *)
(* freedom e and e + 1.                                                    *)
(***************************************************************************)
\* fe.CalcShape(IntRule->IntPoint(q), shape): shape(j)
CalcShape(j, q) == IF j = q % 2 THEN 2 ELSE 1

\* the shape function of global dof i in zone e at point q (0 outside)
ZoneShape(e, i, q) == IF i \in {e, e + 1} THEN CalcShape(i - e, q) ELSE 0

(***************************************************************************)
(* DensityIntegrator::AssembleRHSElementVect, part_000 lines 26-41.        *)
(* The caller keeps one local output per zone: elvect[e], elmat[e].        *)
(***************************************************************************)
Zones == 0..(NZones - 1)
\* a local output no assembly has sized yet
Unassembled == <<>>

RECURSIVE DensityElementVectUpTo(_, _, _)
\* lines 33-40: elvect after the loop has handled the points 0 .. n-1:
\* elvect = 0.0, then for each q: shape *= rho0DetJ0w(e*nqp + q);
\* elvect += shape
DensityElementVectUpTo(w, e, n) ==
    IF n = 0 THEN [j \in 0..1 |-> 0]
    ELSE LET before == DensityElementVectUpTo(w, e, n - 1)
             q == n - 1
             shape == [j \in 0..1 |-> CalcShape(j, q) * w[e * NQP + q]]
         IN  [j \in 0..1 |-> before[j] + shape[j]]

\* the weight read at point q of the mesh instead of point q of zone e
DensityElementVect_NoZoneOffset(w, e) ==
    DensityElementVectUpTo(w, 0, NQP)

\* lines 30-40: the element vector of zone e
DensityElementVect(w, e) ==
    DensityElementVectUpTo(w, e, NQP)

\* "shape *= rho0DetJ0w(...)" written the other way round.
AssembleRHSElementVect_ScalesWeights(e) ==
    /\ elvect' = [elvect EXCEPT ![e] = DensityElementVect(rho0DetJ0w, e)]
    /\ rho0DetJ0w' = [k \in QuadPoints |->
                         IF k \in {e * NQP + q : q \in 0..(NQP - 1)}
                         THEN rho0DetJ0w[k] * CalcShape(0, k % NQP)
                         ELSE rho0DetJ0w[k]]
    /\ UNCHANGED <<h0, stressJinvT, elmat, ctlVars, hydroVars, massVars,
                   parVars>>

AssembleRHSElementVect(e) ==
    /\ elvect' = [elvect EXCEPT ![e] = DensityElementVect(rho0DetJ0w, e)]
    /\ UNCHANGED <<qdataVars, elmat, ctlVars, hydroVars, massVars, parVars>>

(***************************************************************************)
(* ForceIntegrator::AssembleElementMatrix2, part_000 lines 43-77.          *)
(* stressJinvT[<<vd, eq, gd>>] is stressJinvT(vd)(eq, gd); a matrix is a   *)
(* function of <<row, column>>.                                            *)
(***************************************************************************)
\* line 50: dim = trial_fe.GetDim()
Dim == 2
\* line 51: h1dofs_cnt = trial_fe.GetDof(), the kinematic dofs of a zone
h1dofs_cnt == 2
\* line 52: l2dofs_cnt = test_fe.GetDof(), the thermodynamic dofs of a zone
l2dofs_cnt == 2

\* line 61: trial_fe.CalcDShape(ip, vshape): vshape(i, gd) at point q
CalcDShape(i, gd, q) == (2 * i - 1) * (1 + gd * (1 + (q % 2)))

ElmatIndices == (0..(l2dofs_cnt - 1)) \X (0..(h1dofs_cnt * Dim - 1))

\* the cache read one point further on
LocForce_NextPoint(s, e, q) ==
    [ivd \in (0..(h1dofs_cnt - 1)) \X (0..(Dim - 1)) |->
        SumOver([gd \in 0..(Dim - 1) |->
                    s[<<ivd[2], (e * NQP + q + 1) % NQuad, gd>>]
                        * CalcDShape(ivd[1], gd, q)],
                0..(Dim - 1))]

\* lines 62-73: loc_force(i, vd) at point q of zone e
LocForce(s, e, q) ==
    [ivd \in (0..(h1dofs_cnt - 1)) \X (0..(Dim - 1)) |->
        SumOver([gd \in 0..(Dim - 1) |->
                    s[<<ivd[2], e * NQP + q, gd>>]
                        * CalcDShape(ivd[1], gd, q)],
                0..(Dim - 1))]

\* line 56: Vloc_force(loc_force.Data(), h1dofs_cnt*dim), the vector view
\* of the column-major data of loc_force
Vloc_force(loc_force) ==
    [k \in 0..(h1dofs_cnt * Dim - 1) |->
        loc_force[<<k % h1dofs_cnt, k \div h1dofs_cnt>>]]

\* mfem::AddMultVWt(v, w, VWt): VWt(j, k) += v(j) * w(k)
AddMultVWt(v, w, VWt) ==
    [jk \in ElmatIndices |-> VWt[jk] + v[jk[1]] * w[jk[2]]]

RECURSIVE ForceElmatUpTo(_, _, _, _)
\* lines 57-76: elmat after the loop has handled the points 0 .. n-1,
\* started from the matrix m0
ForceElmatUpTo(s, e, n, m0) ==
    IF n = 0 THEN m0
    ELSE LET q == n - 1
             shape == [j \in 0..(l2dofs_cnt - 1) |-> CalcShape(j, q)]
         IN  AddMultVWt(shape, Vloc_force(LocForce(s, e, q)),
                        ForceElmatUpTo(s, e, n - 1, m0))

\* lines 53-54: elmat.SetSize(l2dofs_cnt, h1dofs_cnt*dim); elmat = 0.0
ZeroElmat == [jk \in ElmatIndices |-> 0]

\* the assembly with "elmat = 0.0" left out: a matrix that already has the
\* size keeps its entries
AssembleElementMatrix2_Accumulates(e) ==
    /\ elmat' = [elmat EXCEPT ![e] =
                    ForceElmatUpTo(stressJinvT, e, NQP,
                                   IF elmat[e] = Unassembled
                                   THEN ZeroElmat ELSE elmat[e])]
    /\ UNCHANGED <<qdataVars, elvect, ctlVars, hydroVars, massVars, parVars>>

\* lines 43-77: the element matrix of zone e
AssembleElementMatrix2(e) ==
    /\ elmat' = [elmat EXCEPT ![e] =
                    ForceElmatUpTo(stressJinvT, e, NQP, ZeroElmat)]
    /\ UNCHANGED <<qdataVars, elvect, ctlVars, hydroVars, massVars, parVars>>

(***************************************************************************)
(* kMassPAOperator, kMassPAOperator.cpp.                                   *)
(***************************************************************************)
\* the entry (i, j) of the mass matrix built from the weights w
MassEntry(w, i, j) ==
    SumOver([k \in QuadPoints |->
                w[k] * ZoneShape(k \div NQP, i, k % NQP)
                     * ZoneShape(k \div NQP, j, k % NQP)],
            QuadPoints)

\* line 140: massOperator->Mult(distX, y), the matrix-free mass action
MassAction(w, v) ==
    [i \in Dofs |-> SumOver([j \in Dofs |-> MassEntry(w, i, j) * v[j]], Dofs)]

\* the elimination loop started at the second pinned dof
MultDistX_SkipsFirst(xx, cnt, ess) ==
    IF cnt # 0 THEN SetSubVector(xx, Tail(ess), 0) ELSE xx

\* lines 130-136: distX = x; if (ess_tdofs_count) distX.SetSubVector(...)
MultDistX(xx, cnt, ess) ==
    IF cnt # 0 THEN SetSubVector(xx, ess, 0) ELSE xx

\* the input elimination of lines 133-136 left out
MultY_NoInputElimination(xx, cnt, ess, w) ==
    LET yy == MassAction(w, xx)
    IN  IF cnt # 0 THEN SetSubVector(yy, ess, 0) ELSE yy

\* the output elimination of lines 143-146 left out
MultY_NoOutputElimination(xx, cnt, ess, w) ==
    MassAction(w, MultDistX(xx, cnt, ess))

\* lines 130-146: the result vector y of Mult(x, y)
MultY(xx, cnt, ess, w) ==
    LET yy == MassAction(w, MultDistX(xx, cnt, ess))
    IN  IF cnt # 0 THEN SetSubVector(yy, ess, 0) ELSE yy

\* "b = 0.0" instead of "b.SetSubVector(ess_tdofs, 0.0)"
EliminateRHSResult_ClearsAll(bb, cnt, ess) ==
    IF cnt > 0 THEN [i \in DOMAIN bb |-> 0] ELSE bb

\* lines 109-112: b after EliminateRHS(b)
EliminateRHSResult(bb, cnt, ess) ==
    IF cnt > 0 THEN SetSubVector(bb, ess, 0) ELSE bb

\* the operator is alive and no call is in progress
MassIdle == mfault = "none" /\ mpc \notin {"Mult:call", "EliminateRHS:call"}

MassFrame == UNCHANGED <<ctlVars, hydroVars, qdataVars, outVars, parVars>>

\* a Setup that also resets the recorded essential dofs
Setup_ClearsDofs ==
    /\ MassIdle
    /\ massOperator' = "PAOperator"
    /\ mpc' = "Setup"
    /\ ess_tdofs_count' = 0
    /\ ess_tdofs' = <<>>
    /\ UNCHANGED <<distX, x, y, b, mfault>>
    /\ MassFrame

\* lines 52-71: Setup()
Setup ==
    /\ MassIdle
    /\ massOperator' = "PAOperator"
    /\ mpc' = "Setup"
    /\ UNCHANGED <<ess_tdofs_count, ess_tdofs, distX, x, y, b, mfault>>
    /\ MassFrame

\* the size test of line 92 written with == instead of <=
SetEssentialTrueDofs_ExactSize(dofs, others) ==
    /\ MassIdle
    /\ mpc' = "SetEssentialTrueDofs"
    /\ ess_tdofs_count' = Len(dofs)
    /\ IF Len(ess_tdofs) = 0
       THEN LET global_ess_tdofs_count == Len(dofs) + others
            IN  IF global_ess_tdofs_count > 0
                THEN /\ mfault' = "none"
                     /\ ess_tdofs' =
                            IF Len(dofs) = 0
                            THEN UninitializedArray(global_ess_tdofs_count)
                            ELSE dofs
                ELSE /\ mfault' = "assert"
                     /\ ess_tdofs' = ess_tdofs
       ELSE IF Len(dofs) = Len(ess_tdofs)
            THEN /\ mfault' = "none"
                 /\ ess_tdofs' = IF Len(dofs) = 0 THEN ess_tdofs ELSE dofs
            ELSE /\ mfault' = "assert"
                 /\ ess_tdofs' = ess_tdofs
    /\ UNCHANGED <<massOperator, distX, x, y, b>>
    /\ MassFrame

\* lines 74-103: SetEssentialTrueDofs(dofs); others is the sum of the
\* counts of the other partitions in the MPI_Allreduce of line 83.
SetEssentialTrueDofs(dofs, others) ==
    /\ MassIdle
    /\ mpc' = "SetEssentialTrueDofs"
    /\ ess_tdofs_count' = Len(dofs)
    /\ IF Len(ess_tdofs) = 0
       THEN LET global_ess_tdofs_count == Len(dofs) + others
            IN  IF global_ess_tdofs_count > 0
                THEN /\ mfault' = "none"
                     /\ ess_tdofs' =
                            IF Len(dofs) = 0
                            THEN UninitializedArray(global_ess_tdofs_count)
                            ELSE dofs
                ELSE /\ mfault' = "assert"
                     /\ ess_tdofs' = ess_tdofs
       ELSE IF Len(dofs) <= Len(ess_tdofs)
            THEN /\ mfault' = "none"
                 /\ ess_tdofs' = IF Len(dofs) = 0 THEN ess_tdofs ELSE dofs
            ELSE /\ mfault' = "assert"
                 /\ ess_tdofs' = ess_tdofs
    /\ UNCHANGED <<massOperator, distX, x, y, b>>
    /\ MassFrame

\* the caller passes b to EliminateRHS
EliminateRHSCall(b0) ==
    /\ MassIdle
    /\ mpc' = "EliminateRHS:call"
    /\ b' = b0
    /\ x' = EmptyVector
    /\ y' = EmptyVector
    /\ UNCHANGED <<massOperator, ess_tdofs_count, ess_tdofs, distX, mfault>>
    /\ MassFrame

\* lines 106-115: EliminateRHS(b)
EliminateRHS ==
    /\ mfault = "none"
    /\ mpc = "EliminateRHS:call"
    /\ mpc' = "EliminateRHS"
    /\ b' = EliminateRHSResult(b, ess_tdofs_count, ess_tdofs)
    /\ UNCHANGED <<massOperator, ess_tdofs_count, ess_tdofs, distX, x, y,
                   mfault>>
    /\ MassFrame

\* the caller passes x and y to Mult; y holds what the caller left in it
MultCall(x0) ==
    /\ MassIdle
    /\ mpc' = "Mult:call"
    /\ x' = x0
    /\ y' = [i \in Dofs |-> 1]
    /\ b' = EmptyVector
    /\ UNCHANGED <<massOperator, ess_tdofs_count, ess_tdofs, distX, mfault>>
    /\ MassFrame

\* the elimination done on x itself instead of on the scratch copy
Mult_InPlace ==
    /\ mfault = "none"
    /\ mpc = "Mult:call"
    /\ mpc' = "Mult"
    /\ distX' = MultDistX(x, ess_tdofs_count, ess_tdofs)
    /\ x' = distX'
    /\ IF massOperator = "NULL"
       THEN mfault' = "segv" /\ y' = y
       ELSE /\ mfault' = "none"
            /\ y' = MultY(x, ess_tdofs_count, ess_tdofs, rho0DetJ0w)
    /\ UNCHANGED <<massOperator, ess_tdofs_count, ess_tdofs, b>>
    /\ MassFrame

\* lines 118-150: Mult(x, y).  With massOperator still NULL line 140 calls
\* through a null pointer: the process dies there, after distX was written.
Mult ==
    /\ mfault = "none"
    /\ mpc = "Mult:call"
    /\ mpc' = "Mult"
    /\ distX' = MultDistX(x, ess_tdofs_count, ess_tdofs)
    /\ IF massOperator = "NULL"
       THEN mfault' = "segv" /\ y' = y
       ELSE /\ mfault' = "none"
            /\ y' = MultY(x, ess_tdofs_count, ess_tdofs, rho0DetJ0w)
    /\ UNCHANGED <<massOperator, ess_tdofs_count, ess_tdofs, x, b>>
    /\ MassFrame

\* the arrays of pinned dofs a caller passes: the ascending lists of the
\* subsets of the dofs (FiniteElementSpace::MarkerToList).
RECURSIVE AscendingList(_)
AscendingList(D) ==
    IF D = {} THEN <<>>
    ELSE LET m == CHOOSE k \in D : \A j \in D : k <= j
         IN  <<m>> \o AscendingList(D \ {m})

DofLists == {AscendingList(D) : D \in SUBSET Dofs}
OtherCounts == 0..MaxOtherCount

\* the quadrature data after construction: the weights rho0 * det(J0) * w
\* at the quadrature points and the element size estimate.
Rho0DetJ0wChoices ==
    {[k \in QuadPoints |-> 1], [k \in QuadPoints |-> 1 + (k % 3)]}

\* contents of the stress cache: entries in -2..1 that differ from point
\* to point and from zone to zone
StressTensor(k) ==
    [idx \in (0..(Dim - 1)) \X QuadPoints \X (0..(Dim - 1)) |->
        ((k * (idx[2] \div NQP + 1) + 2 * idx[1] + idx[3] + idx[2]) % 4) - 2]
StressChoices == {StressTensor(k) : k \in 0..3}

\* no zone assembled yet
InitOutputs ==
    /\ elvect = [e \in Zones |-> Unassembled]
    /\ elmat = [e \in Zones |-> Unassembled]

InitQData ==
    /\ rho0DetJ0w \in Rho0DetJ0wChoices
    /\ h0 = 1
    /\ stressJinvT = StressTensor(1)
    /\ InitOutputs

\* lines 32-49: the constructor
InitMass ==
    /\ massOperator = "NULL"
    /\ ess_tdofs_count = 0
    /\ ess_tdofs = <<>>
    /\ distX = EmptyVector
    /\ mpc = "idle"
    /\ x = EmptyVector
    /\ y = EmptyVector
    /\ b = EmptyVector
    /\ mfault = "none"

NextMass ==
    \/ Setup
    \/ \E dofs \in DofLists, others \in OtherCounts :
           SetEssentialTrueDofs(dofs, others)
    \/ \E b0 \in Vectors : EliminateRHSCall(b0)
    \/ EliminateRHS
    \/ \E x0 \in Vectors : MultCall(x0)
    \/ Mult

NextAssembly ==
    \E e \in Zones : AssembleRHSElementVect(e)

NextForce ==
    \E e \in Zones : AssembleElementMatrix2(e)

(***************************************************************************)
(* A parallel run: NParts partitions, each executing SetEssentialTrueDofs  *)
(* and the time loop of main() on its own part of the mesh, with the       *)
(* options t_final and max_tsteps of the common command line.  A           *)
(* collective (MPI_Allreduce, MPI_Barrier) is a rendezvous: a partition    *)
(* that enters it blocks until every partition has entered a collective of *)
(* the same kind.  A failed assert or MFEM_ABORT ends the whole job.       *)
(* rk[p].log lists the collectives partition p has entered, in order;      *)
(* rk[p].speed holds the characteristic speeds in the cache of p where a   *)
(* specification tracks them.                                              *)
(***************************************************************************)
Parts == 1..NParts
None == <<>>

\* -vs, --visualization-steps
vis_steps == 5

\* the pinned dofs of a partition in one call: its first n dofs
ParDofLists == {AscendingList(0..(n - 1)) : n \in 0..2}
\* the local time-step estimates before the loop and after a step of size d
ParDt0s == {R(1, 1), R(3, 2), R(2, 1)}
ParEstimates(d) == {RMul(R(k, 4), d) : k \in {3, 4, 6}}

RMinOver(X) == CHOOSE a \in X : \A c \in X : RLeq(a, c)

\* -cfl, --cfl: the CFL number (part_001 line 79)
cfl == R(1, 2)

\* a / c for c > 0
RDiv(a, c) == RMul(a, <<c[2], c[1]>>)

\* the local part of TimeStepEstimate: the minimum over the quadrature
\* points of the partition of elementSizeEstimate / characteristicSpeed,
\* times the CFL number; speeds[q] is the characteristic speed the cache
\* holds at point q
LocalEstimate(speeds) ==
    RMinOver({RMul(cfl, RDiv(R(h0, 1), speeds[q])) : q \in DOMAIN speeds})

\* the partition's cache content is not tracked
NoSpeeds == <<>>

\* the characteristic speeds a cache may hold at the points of a partition
SpeedProfiles == [0..(NQP - 1) -> {R(1, 1), R(2, 1), R(4, 1)}]

InitPar ==
    /\ rk = [p \in Parts |->
                [pc |-> "set", calls |-> 0, ess |-> <<>>, cnt |-> 0,
                 arg |-> <<>>, t |-> Zero, dt |-> Zero, t_old |-> Zero,
                 dt_est |-> Zero, last_step |-> FALSE, steps |-> 0,
                 ti |-> 1, log |-> <<>>, speed |-> NoSpeeds]]
    /\ comm = [p \in Parts |-> None]
    /\ job = "running"

ParFrame == UNCHANGED <<ctlVars, hydroVars, qdataVars, outVars, massVars>>

\* partition p enters a collective of the given kind with its local value
Enter(p, r, kind, value) ==
    /\ rk' = [rk EXCEPT ![p] = [r EXCEPT !.log = Append(@, kind)]]
    /\ comm' = [comm EXCEPT ![p] = <<kind, value>>]
    /\ job' = job

\* every partition is blocked in a collective of this kind
AllIn(kind) == \A p \in Parts : comm[p] # None /\ comm[p][1] = kind

\* the position of a partition after a SetEssentialTrueDofs call
AfterCall(r) == IF r.calls + 1 = NCalls THEN "start" ELSE "set"

\* the collective sum entered only by the partitions that pass dofs
EntersAllreduce_OnlyWithDofs(size, n) == size = 0 /\ n > 0

\* kMassPAOperator.cpp line 78: if (ess_tdofs.Size()==0)
EntersAllreduce(size, n) == size = 0

\* kMassPAOperator.cpp lines 74-103 on partition p, up to the MPI_Allreduce
\* of line 83 when it is entered, to the end otherwise
ParSetEssentialTrueDofs(p, dofs) ==
    LET r == rk[p]
        r1 == [r EXCEPT !.cnt = Len(dofs), !.arg = dofs]
    IN  /\ job = "running"
        /\ r.pc = "set"
        /\ IF EntersAllreduce(Len(r.ess), Len(dofs))
           THEN Enter(p, [r1 EXCEPT !.pc = "sum"], "sum", Len(dofs))
           ELSE IF Len(dofs) <= Len(r.ess)
                THEN /\ rk' = [rk EXCEPT ![p] =
                                 [r1 EXCEPT !.ess = IF Len(dofs) = 0
                                                    THEN @ ELSE dofs,
                                            !.calls = @ + 1,
                                            !.pc = AfterCall(r)]]
                     /\ UNCHANGED <<comm, job>>
                ELSE /\ rk' = [rk EXCEPT ![p] = [r1 EXCEPT !.pc = "dead"]]
                     /\ job' = "aborted"
                     /\ comm' = comm
        /\ ParFrame

\* the assertion made on the local count of each partition instead of on
\* the sum
AllreduceSum_LocalAssert ==
    /\ job = "running"
    /\ AllIn("sum")
    /\ IF \A p \in Parts : rk[p].cnt > 0
       THEN /\ rk' = [p \in Parts |->
                        [rk[p] EXCEPT
                           !.ess = rk[p].arg,
                           !.calls = @ + 1,
                           !.pc = AfterCall(rk[p])]]
            /\ job' = job
       ELSE /\ rk' = [p \in Parts |-> [rk[p] EXCEPT !.pc = "dead"]]
            /\ job' = "aborted"
    /\ comm' = [p \in Parts |-> None]
    /\ ParFrame

\* kMassPAOperator.cpp lines 83-103: the MPI_Allreduce(MPI_SUM) returns on
\* every partition and each one finishes its call
AllreduceSum ==
    /\ job = "running"
    /\ AllIn("sum")
    /\ LET global_ess_tdofs_count ==
               SumOver([p \in Parts |-> comm[p][2]], Parts)
       IN  IF global_ess_tdofs_count > 0
           THEN /\ rk' = [p \in Parts |->
                            [rk[p] EXCEPT
                               !.ess = IF rk[p].cnt = 0
                                       THEN UninitializedArray(
                                                global_ess_tdofs_count)
                                       ELSE rk[p].arg,
                               !.calls = @ + 1,
                               !.pc = AfterCall(rk[p])]]
                /\ job' = job
           ELSE /\ rk' = [p \in Parts |-> [rk[p] EXCEPT !.pc = "dead"]]
                /\ job' = "aborted"
    /\ comm' = [p \in Parts |-> None]
    /\ ParFrame

\* main(), lines 509-511 on partition p: the estimate before the loop
\* enters the collective minimum with the local estimate
ParInitialEstimate(p, est) ==
    /\ job = "running"
    /\ rk[p].pc = "start"
    /\ Enter(p, [rk[p] EXCEPT !.pc = "min0"], "min", est)
    /\ ParFrame

\* main(), line 536 on partition p
ParGetTimeStepEstimate(p, est) ==
    /\ job = "running"
    /\ rk[p].pc = "estimate"
    /\ Enter(p, [rk[p] EXCEPT !.pc = "min"], "min", est)
    /\ ParFrame

\* no reduction: every partition gets its own local estimate back
AllreduceMin_NoReduction ==
    /\ job = "running"
    /\ AllIn("min")
    /\ rk' = [p \in Parts |->
                 IF rk[p].pc = "min0"
                 THEN [rk[p] EXCEPT !.dt = comm[p][2], !.pc = "loop"]
                 ELSE [rk[p] EXCEPT !.dt_est = comm[p][2], !.pc = "decide"]]
    /\ comm' = [p \in Parts |-> None]
    /\ job' = job
    /\ ParFrame

\* the collective minimum of GetTimeStepEstimate returns on every partition
AllreduceMin ==
    /\ job = "running"
    /\ AllIn("min")
    /\ LET m == RMinOver({comm[p][2] : p \in Parts})
       IN  rk' = [p \in Parts |->
                    IF rk[p].pc = "min0"
                    THEN [rk[p] EXCEPT !.dt = m, !.pc = "loop"]
                    ELSE [rk[p] EXCEPT !.dt_est = m, !.pc = "decide"]]
    /\ comm' = [p \in Parts |-> None]
    /\ job' = job
    /\ ParFrame

\* main(), lines 518-528 on partition p
ParBeginIteration(p) ==
    LET r == rk[p]
    IN  /\ job = "running"
        /\ r.pc = "loop"
        /\ ~r.last_step
        /\ r.steps < MaxAttempts
        /\ rk' = [rk EXCEPT ![p] =
                    [r EXCEPT
                       !.dt = ClampedDt(r.t, r.dt, t_final),
                       !.last_step = (\/ ReachesFinalTime(r.t, r.dt, t_final)
                                      \/ r.steps = max_tsteps),
                       !.t_old = r.t,
                       !.pc = "step"]]
        /\ UNCHANGED <<comm, job>>
        /\ ParFrame

ParExitLoop(p) ==
    /\ job = "running"
    /\ rk[p].pc = "loop"
    /\ rk[p].last_step
    /\ rk' = [rk EXCEPT ![p].pc = "done"]
    /\ UNCHANGED <<comm, job>>
    /\ ParFrame

\* main(), lines 532-533 on partition p
ParOdeStep(p) ==
    LET r == rk[p]
    IN  /\ job = "running"
        /\ r.pc = "step"
        /\ rk' = [rk EXCEPT ![p] =
                    [r EXCEPT !.t = RAdd(r.t, r.dt),
                              !.steps = @ + 1,
                              !.pc = "estimate"]]
        /\ UNCHANGED <<comm, job>>
        /\ ParFrame

\* main(), lines 537-550 on partition p
ParReject(p) ==
    LET r == rk[p]
        d == Shrink(r.dt)
    IN  /\ job = "running"
        /\ r.pc = "decide"
        /\ StepRejected(r.dt_est, r.dt)
        /\ IF BelowFloor(d)
           THEN /\ rk' = [rk EXCEPT ![p] = [r EXCEPT !.dt = d, !.pc = "dead"]]
                /\ job' = "aborted"
           ELSE /\ rk' = [rk EXCEPT ![p] =
                            [r EXCEPT
                               !.dt = d,
                               !.t = r.t_old,
                               !.last_step =
                                   LastStepAfterReject(r.last_step, r.steps,
                                                       max_tsteps),
                               !.ti = TiAfterReject(r.ti),
                               !.pc = "loop"]]
                /\ job' = job
        /\ comm' = comm
        /\ ParFrame

\* the accepted step size raised on the root partition only
ParAccept_RootOnlyGrows(p) ==
    LET r == rk[p]
        r1 == [r EXCEPT !.dt = IF p = 1 THEN NextDt(r.dt_est, r.dt) ELSE r.dt]
    IN  /\ job = "running"
        /\ r.pc = "decide"
        /\ ~StepRejected(r.dt_est, r.dt)
        /\ IF r.last_step \/ (r.ti % vis_steps) = 0
           THEN Enter(p, [r1 EXCEPT !.pc = "norm"], "norm", 0)
           ELSE /\ rk' = [rk EXCEPT ![p] =
                            [r1 EXCEPT !.ti = @ + 1, !.pc = "loop"]]
                /\ UNCHANGED <<comm, job>>
        /\ ParFrame

\* main(), lines 551-561 on partition p: the step is accepted; when the
\* step is to be reported the partition enters the MPI_Allreduce of the
\* energy norm, otherwise it goes on to the next iteration
ParAccept(p) ==
    LET r == rk[p]
        r1 == [r EXCEPT !.dt = NextDt(r.dt_est, r.dt)]
    IN  /\ job = "running"
        /\ r.pc = "decide"
        /\ ~StepRejected(r.dt_est, r.dt)
        /\ IF r.last_step \/ (r.ti % vis_steps) = 0
           THEN Enter(p, [r1 EXCEPT !.pc = "norm"], "norm", 0)
           ELSE /\ rk' = [rk EXCEPT ![p] =
                            [r1 EXCEPT !.ti = @ + 1, !.pc = "loop"]]
                /\ UNCHANGED <<comm, job>>
        /\ ParFrame

\* main(), line 561: the MPI_Allreduce of the norm returns
AllreduceNorm ==
    /\ job = "running"
    /\ AllIn("norm")
    /\ rk' = [p \in Parts |-> [rk[p] EXCEPT !.pc = "report"]]
    /\ comm' = [p \in Parts |-> None]
    /\ job' = job
    /\ ParFrame

\* main(), lines 562-586 on partition p: report, then MPI_Barrier
ParReport(p) ==
    /\ job = "running"
    /\ rk[p].pc = "report"
    /\ Enter(p, [rk[p] EXCEPT !.pc = "barrier"], "barrier", 0)
    /\ ParFrame

\* main(), lines 586-656: the MPI_Barrier returns; the for statement's ti++
Barrier ==
    /\ job = "running"
    /\ AllIn("barrier")
    /\ rk' = [p \in Parts |->
                 [rk[p] EXCEPT !.ti = @ + 1, !.pc = "loop"]]
    /\ comm' = [p \in Parts |-> None]
    /\ job' = job
    /\ ParFrame

NextPar ==
    \/ \E p \in Parts, dofs \in ParDofLists : ParSetEssentialTrueDofs(p, dofs)
    \/ AllreduceSum
    \/ \E p \in Parts, est \in ParDt0s : ParInitialEstimate(p, est)
    \/ \E p \in Parts : ParBeginIteration(p)
    \/ \E p \in Parts : ParOdeStep(p)
    \/ \E p \in Parts : \E est \in ParEstimates(rk[p].dt) :
           ParGetTimeStepEstimate(p, est)
    \/ AllreduceMin
    \/ \E p \in Parts : ParReject(p)
    \/ \E p \in Parts : ParAccept(p)
    \/ AllreduceNorm
    \/ \E p \in Parts : ParReport(p)
    \/ Barrier
    \/ \E p \in Parts : ParExitLoop(p)

(***************************************************************************)
(* The time loop alone.                                                    *)
(***************************************************************************)
\* the time loop started with fixed options
InitCtlFixed ==
    /\ InitCtl
    /\ t_old = Zero
    /\ t_final = R(2, 1)
    /\ max_tsteps = -1

\* the quadrature data with unit weights
InitQDataFixed == InitQData /\ rho0DetJ0w = [k \in QuadPoints |-> 1]

InitStep == InitCtl /\ InitHydro /\ InitQDataFixed /\ InitMass /\ InitPar

SpecStep == InitStep /\ [][NextCtl]_vars

(***************************************************************************)
(* The mass operator and the integrators alone.                            *)
(***************************************************************************)
InitOperators == InitCtlFixed /\ InitHydro /\ InitQData /\ InitMass /\ InitPar

SpecMass == InitOperators /\ [][NextMass]_vars

(***************************************************************************)
(* The parallel run alone.                                                 *)
(***************************************************************************)
InitParallel ==
    InitCtlFixed /\ InitHydro /\ InitQDataFixed /\ InitMass /\ InitPar

SpecPar == InitParallel /\ [][NextPar]_vars

(***************************************************************************)
(* The time-step estimate alone: every partition is about to take the      *)
(* estimate of line 511, its cache holding any of the speed profiles.      *)
(***************************************************************************)
InitEstimate ==
    /\ InitCtlFixed /\ InitHydro /\ InitQDataFixed /\ InitMass
    /\ \E sp \in [Parts -> SpeedProfiles] :
           rk = [p \in Parts |->
                    [pc |-> "start", calls |-> NCalls, ess |-> <<>>,
                     cnt |-> 0, arg |-> <<>>, t |-> Zero, dt |-> Zero,
                     t_old |-> Zero, dt_est |-> Zero, last_step |-> FALSE,
                     steps |-> 0, ti |-> 1, log |-> <<>>, speed |-> sp[p]]]
    /\ comm = [p \in Parts |-> None]
    /\ job = "running"

NextEstimate ==
    \/ \E p \in Parts : ParInitialEstimate(p, LocalEstimate(rk[p].speed))
    \/ AllreduceMin

SpecEstimate == InitEstimate /\ [][NextEstimate]_vars

(***************************************************************************)
(* The whole program: the time loop, the integrators and the mass          *)
(* operator, the operators being called with a few arguments only.         *)
(***************************************************************************)
SomeVectors == {[i \in Dofs |-> IF i = 0 THEN 1 ELSE 0]}
SomeDofLists == {<<0>>, <<1>>}

InitAll ==
    /\ InitCtl /\ t_old = Zero /\ t_final = R(3, 1) /\ max_tsteps = -1
    /\ InitHydro
    /\ InitQData /\ rho0DetJ0w = [k \in QuadPoints |-> 1 + (k % 3)]
    /\ InitMass
    /\ InitPar

NextMassSome ==
    \/ Setup
    \/ \E dofs \in SomeDofLists : SetEssentialTrueDofs(dofs, 0)
    \/ \E b0 \in SomeVectors : EliminateRHSCall(b0)
    \/ EliminateRHS
    \/ \E x0 \in SomeVectors : MultCall(x0)
    \/ Mult

(***************************************************************************)
(* The integrators alone, over several contents of the quadrature data.    *)
(***************************************************************************)
InitAssembly ==
    /\ InitCtlFixed /\ InitHydro /\ InitMass /\ InitPar
    /\ rho0DetJ0w \in Rho0DetJ0wChoices
    /\ h0 = 1
    /\ stressJinvT \in StressChoices
    /\ InitOutputs

SpecAssembly == InitAssembly /\ [][NextAssembly \/ NextForce]_vars

Init == InitAll

Next == NextCtl \/ NextMassSome \/ NextAssembly

Spec == Init /\ [][Next]_vars

(***************************************************************************)
(* Claims about the time loop (checked under SpecStep).                    *)
(***************************************************************************)

\* C1 (as claimed): step-rejection rollback.  When the loop has finished
\* (and was not cut short by the step cap), the state vector is the saved
\* state S_old advanced by exactly one step, the step from t_old to t: it is
\* never a rolled-back state that was not advanced again, nor a partially
\* applied update.
C1_RollbackReadvanced ==
    (pc = "done" /\ ~(max_tsteps >= 0 /\ steps >= max_tsteps)) =>
        (/\ S # S_old
         /\ S = Advance(S_old, RSub(t, t_old)))

\* the next state is the outcome of a rejected attempt: abort, or rollback
\* with the iteration index kept.
RejectedOutcome ==
    \/ pc' = "aborted"
    \/ pc' = "loop" /\ S' = S_old /\ t' = t_old /\ ti' = ti

\* the next state is the outcome of an accepted attempt.
AcceptedOutcome ==
    pc' = "loop" /\ S' = S /\ t' = t /\ ti' = ti + 1

\* C2: decision rule, first match wins.  An attempt with step size dt and
\* estimate dt_est is rejected exactly when dt_est < dt; otherwise it is
\* accepted, the accepted state and time are kept, and the next step size is
\* 1.02*dt exactly when dt_est > 1.25*dt and dt otherwise.
C2_DecisionRule ==
    [][pc = "decide" =>
         IF RLess(dt_est, dt)
         THEN RejectedOutcome /\ ~AcceptedOutcome
         ELSE /\ AcceptedOutcome /\ ~RejectedOutcome
              /\ dt' = IF RLess(RMul(R(5, 4), dt), dt_est)
                       THEN RMul(R(51, 50), dt)
                       ELSE dt]_vars

\* C2 witness: an attempt with dt_est = dt was accepted with dt unchanged.
C2_Witness ==
    /\ pc = "loop"
    /\ ti > 1
    /\ dt_est = dt
    /\ S = Advance(S_old, dt)
    /\ t = RAdd(t_old, dt)

\* C3 (as claimed): monotonic floor abort.  With no step cap, a run in which
\* every attempt is rejected (no step was accepted, ti = 1) never ends
\* silently: it can only end in the fatal abort.
C3_NoSilentEnd ==
    (pc = "done" /\ max_tsteps < 0) => (ti > 1)

\* C4 (as claimed): terminal condition.  When the loop ends without abort,
\* t equals t_final or the maximum step count has been reached.
C4_TerminalCondition ==
    pc = "done" => \/ t = t_final
                   \/ max_tsteps >= 0 /\ steps >= max_tsteps

\* C5 (as claimed): the iteration index and the step counter both count the
\* accepted steps, so between attempts they agree (ti starts at 1).
C5_StepsCountAccepted ==
    pc \in {"loop", "done"} => steps = ti - 1

\* C5 (amended): the iteration index ti increases by one exactly on each
\* accepted step and is unchanged by a rejected attempt; the step counter
\* steps increases by one on every integrator invocation that returns,
\* accepted or rejected, and is changed nowhere else.
C5_TiCountsAccepted ==
    [][ /\ (pc = "decide" /\ pc' = "loop") =>
               (/\ ti' = IF RLess(dt_est, dt) THEN ti ELSE ti + 1
                /\ steps' = steps)
        /\ (pc = "step") =>
               (/\ ti' = ti
                /\ steps' = IF pc' = "failed" THEN steps ELSE steps + 1)
        /\ (pc \notin {"decide", "step"}) =>
               (ti' = ti /\ steps' = steps) ]_vars

\* C5 witness: two attempts were rejected and rolled back: the iteration
\* index is still 1 and the step counter is 2.
C5_Witness ==
    pc = "loop" /\ ti = 1 /\ steps = 2 /\ S = S0

\* C6: final-time clamp.  At every integrator invocation t + dt <= t_final;
\* t <= t_final in every state; after the integrator t = t_old + dt; an
\* accepted step keeps that t and a rejected attempt returns to t_old.
C6_FinalTimeClamp ==
    /\ [](/\ (pc = "step") => RLeq(RAdd(t, dt), t_final)
          /\ RLeq(t, t_final)
          /\ (pc \in {"estimate", "decide"}) => (t = RAdd(t_old, dt)))
    /\ [][(pc = "decide" /\ pc' = "loop") =>
             (t' = IF RLess(dt_est, dt) THEN t_old ELSE RAdd(t_old, dt))]_vars

\* C6 witness: after an earlier accepted step, a step clamped to end at
\* t_final has been taken.
C6_Witness ==
    /\ pc = "decide"
    /\ t = t_final
    /\ RLess(Zero, t_old)
    /\ last_step

(***************************************************************************)
(* Claims about the quadrature data (checked under Spec).                  *)
(***************************************************************************)

PinnedDofs == IF ess_tdofs_count > 0 THEN Range(ess_tdofs) ELSE {}

\* this step is a Mult that returns
MultReturns == mpc = "Mult:call" /\ mpc' = "Mult" /\ mfault' = "none"

\* C8: symmetric elimination.  For every input vector x and every nonempty
\* set of pinned dofs, every pinned entry of the result y of Mult is 0, and
\* every vector x2 that differs from x only in pinned entries gives the same
\* result.
C8_SymmetricElimination ==
    [][(MultReturns /\ ess_tdofs_count > 0) =>
         (/\ \A i \in Range(ess_tdofs) : y'[i] = 0
          /\ \A x2 \in Vectors :
                (\A i \in Dofs \ Range(ess_tdofs) : x2[i] = x[i]) =>
                    (MultY(x2, ess_tdofs_count, ess_tdofs, rho0DetJ0w) = y'))
      ]_vars

\* C8 witness: Mult returned a nonzero result for an input with a nonzero
\* pinned entry.
C8_Witness ==
    /\ mpc = "Mult"
    /\ mfault = "none"
    /\ ess_tdofs_count > 0
    /\ \E p \in Range(ess_tdofs) : x[p] # 0
    /\ \E i \in Dofs : y[i] # 0

\* C9: Mult never mutates its input.  After Mult the vector x is entry for
\* entry what it was at the call, and the recorded pinned dofs, their count,
\* the mass weights and the assembled operator are unchanged.
C9_InputUnchanged ==
    [][(mpc = "Mult:call") =>
         (/\ x' = x
          /\ ess_tdofs' = ess_tdofs
          /\ ess_tdofs_count' = ess_tdofs_count
          /\ rho0DetJ0w' = rho0DetJ0w
          /\ massOperator' = massOperator)]_vars

\* C9 witness: Mult returned; a pinned entry of x is nonzero while the
\* scratch copy distX has it zeroed.
C9_Witness ==
    /\ mpc = "Mult"
    /\ mfault = "none"
    /\ ess_tdofs_count > 0
    /\ \E p \in Range(ess_tdofs) : x[p] # 0 /\ distX[p] = 0

\* C10: EliminateRHS(b) sets every pinned entry of b to 0 and leaves every
\* other entry unchanged; with no pinned dofs b is unchanged; eliminating the
\* result once more changes nothing.
C10_EliminateRHS ==
    [][(mpc = "EliminateRHS:call" /\ mpc' = "EliminateRHS") =>
         (/\ DOMAIN b' = DOMAIN b
          /\ \A i \in Dofs : b'[i] = IF i \in PinnedDofs THEN 0 ELSE b[i]
          /\ (ess_tdofs_count = 0) => (b' = b)
          /\ EliminateRHSResult(b', ess_tdofs_count, ess_tdofs) = b')]_vars

\* C10 witness: EliminateRHS returned with some dofs pinned and a nonzero
\* entry left at a dof that is not pinned.
C10_Witness ==
    /\ mpc = "EliminateRHS"
    /\ ess_tdofs_count > 0
    /\ \E i \in Dofs \ Range(ess_tdofs) : b[i] # 0
    /\ \A p \in Range(ess_tdofs) : b[p] = 0

\* this step is a call of SetEssentialTrueDofs on an operator that already
\* holds a recorded array, with a nonzero number of dofs
SecondSetCall ==
    /\ MassIdle
    /\ mpc' = "SetEssentialTrueDofs"
    /\ Len(ess_tdofs) > 0
    /\ ess_tdofs_count' # 0

C12_ApplyBeforeSetupAsserts ==
    [][(mpc = "Mult:call" /\ mpc' = "Mult" /\ massOperator = "NULL") =>
         (mfault' = "assert" /\ y' = y)]_vars

\* C13 (as claimed): once a call has recorded a nonempty set, no later call
\* that returns and no time step changes the recorded indices or count.
C13_EssentialDofsImmutable ==
    [][(ess_tdofs_count > 0 /\ mfault' = "none") =>
         (ess_tdofs' = ess_tdofs /\ ess_tdofs_count' = ess_tdofs_count)]_vars

\* C13 (amended): the recorded indices and count are changed by
\* SetEssentialTrueDofs only: Setup, EliminateRHS, Mult, the density
\* assembly and the steps of the time loop leave both as they are.
C13_OnlySetChangesDofs ==
    [][(ess_tdofs' # ess_tdofs \/ ess_tdofs_count' # ess_tdofs_count) =>
         (MassIdle /\ mpc' = "SetEssentialTrueDofs")]_vars

\* C13 witness: with a set recorded, Setup ran, Mult returned and a time
\* step was accepted.
C13_Witness ==
    /\ ess_tdofs_count > 0
    /\ ess_tdofs_count = Len(ess_tdofs)
    /\ massOperator = "PAOperator"
    /\ mpc = "Mult"
    /\ mfault = "none"
    /\ ti > 1

(***************************************************************************)
(* Claims about the quadrature cache in the time loop.                     *)
(***************************************************************************)

\* the sequence a is an initial part of the sequence c
IsPrefix(a, c) == Len(a) <= Len(c) /\ SubSeq(c, 1, Len(a)) = a

\* this step ends a rejected attempt with a rollback
RolledBack == pc = "decide" /\ pc' = "loop" /\ RLess(dt_est, dt)

\* C14: idempotent cache.  An EnsureFresh on a cache that is valid (an
\* earlier EnsureFresh with no Invalidate since) performs no refresh and
\* leaves the cache content as it was; the EnsureFresh calls of line 511, of
\* the first integrator step and of the first estimate together perform the
\* refresh exactly once.
C14_IdempotentCache ==
    /\ []((steps = 1 /\ pc \in {"estimate", "decide"}) =>
              (refreshes = 1 /\ cacheSrc = S0))
    /\ [][(cacheValid /\ pc \in {"step", "estimate"}) =>
             (/\ refreshes' = refreshes
              /\ cacheSrc' = cacheSrc
              /\ cacheValid')]_vars

\* C14 witness: the first step and its estimate were computed after the
\* estimate of line 511, and one refresh was performed in all.
C14_Witness ==
    pc = "decide" /\ steps = 1 /\ refreshes = 1 /\ cacheValid /\ S # S0

\* C15: cache lifecycle across rejections.  The cache is stale at the start;
\* a rollback leaves it stale, and it stays stale until the integrator step
\* of the retry, which refreshes it from the rolled-back state S_old; the
\* cache content is never computed from a discarded state: it always comes
\* from the saved state S_old or from a state before it.
C15_StaleAfterRollback ==
    /\ [](/\ (pc = "start") => ~cacheValid
          /\ (cacheSrc # NoState) => IsPrefix(cacheSrc, S_old))
    /\ [][ /\ RolledBack => (~cacheValid' /\ cacheSrc' # S)
           /\ (pc = "loop") => (cacheValid' = cacheValid)
           /\ (pc = "step" /\ ~cacheValid /\ pc' = "estimate") =>
                  (cacheValid' /\ cacheSrc' = S_old /\ S = S_old)
           /\ (pc = "estimate") => IsPrefix(cacheSrc', S_old) ]_vars

\* C15 witness: after a rejected first attempt the integrator step of the
\* retry has refreshed the cache from the rolled-back state.
C15_Witness ==
    /\ pc = "estimate"
    /\ steps = 2
    /\ ti = 1
    /\ refreshes = 2
    /\ cacheValid
    /\ cacheSrc = S_old

\* C16 (as claimed): with a negative maximum step count the loop ends only
\* when t has reached the final time (or in the fatal abort).
C16_NoCapEndsAtFinalTime ==
    (pc = "done" /\ max_tsteps < 0) => (t = t_final)

Count(a, v) == Cardinality({i \in 1..Len(a) : a[i] = v})

ZonePoints(e) == {e * NQP + q : q \in 0..(NQP - 1)}

\* sum over q of shape_j(q) * sum over gd of
\* stressJinvT(vd)(e*nqp + q, gd) * dshape(i, gd)
ForceEntry(s, e, j, i, vd) ==
    SumOver([q \in 0..(NQP - 1) |->
                CalcShape(j, q)
                  * SumOver([gd \in 0..(Dim - 1) |->
                                s[<<vd, e * NQP + q, gd>>]
                                  * CalcDShape(i, gd, q)],
                            0..(Dim - 1))],
            0..(NQP - 1))

\* C22: the force matrix of zone e.  Every assembled elmat[e] has the size
\* (thermodynamic dofs) x (kinematic dofs * dim), and its entry at row j and
\* column i + vd * (kinematic dofs) is the sum over the points q of the zone
\* of shape_j(q) times the sum over gd of stressJinvT(vd)(e*nqp + q, gd) *
\* dshape(i, gd); this holds after any number of assemblies of the zone, so
\* repeated calls do not accumulate.
C22_ForceMatrixEntries ==
    \A e \in Zones :
        (elmat[e] # Unassembled) =>
            /\ DOMAIN elmat[e] =
                   (0..(l2dofs_cnt - 1)) \X (0..(h1dofs_cnt * Dim - 1))
            /\ \A j \in 0..(l2dofs_cnt - 1), i \in 0..(h1dofs_cnt - 1),
                  vd \in 0..(Dim - 1) :
                   elmat[e][<<j, i + vd * h1dofs_cnt>>] =
                       ForceEntry(stressJinvT, e, j, i, vd)

\* C22 witness: both zones are assembled, with different matrices that are
\* not zero.
C22_Witness ==
    /\ \A e \in Zones : elmat[e] # Unassembled
    /\ elmat[0] # elmat[1]
    /\ \E jk \in ElmatIndices : elmat[0][jk] # 0 /\ elmat[1][jk] # 0

\* the cache contents that agree with s at the points of zone e and hold
\* the entries of another content everywhere else
StressElsewhere(s, e) ==
    {[idx \in DOMAIN s |-> IF idx[2] \in ZonePoints(e) THEN s[idx]
                           ELSE other[idx]] : other \in StressChoices}

WeightsElsewhere(w, e) ==
    {[k \in QuadPoints |-> IF k \in ZonePoints(e) THEN w[k] ELSE other[k]] :
         other \in Rho0DetJ0wChoices}

\* C23: zone independence.  In every state, whatever the order in which
\* the zones were assembled and however often, the force matrix and the
\* density vector of an assembled zone e are the ones determined by the
\* cache entries e*nqp .. e*nqp + nqp - 1 alone: the same result comes out
\* of every cache content that agrees on these entries.  An assembly of
\* zone e writes its own local output only: the outputs of the other zones
\* and the quadrature data keep their values.
C23_ZoneIndependence ==
    /\ [](\A e \in Zones :
            /\ (elmat[e] # Unassembled) =>
                   \A s2 \in StressElsewhere(stressJinvT, e) :
                       elmat[e] = ForceElmatUpTo(s2, e, NQP, ZeroElmat)
            /\ (elvect[e] # Unassembled) =>
                   \A w2 \in WeightsElsewhere(rho0DetJ0w, e) :
                       elvect[e] = DensityElementVect(w2, e))
    /\ [][\A e \in Zones :
            (elmat'[e] # elmat[e] \/ elvect'[e] # elvect[e]) =>
                /\ \A e2 \in Zones \ {e} :
                       elmat'[e2] = elmat[e2] /\ elvect'[e2] = elvect[e2]
                /\ elmat'[e] = elmat[e] \/ elvect'[e] = elvect[e]
                /\ UNCHANGED qdataVars]_vars

\* C23 witness: with a cache whose entries differ between the zones, both
\* zones have their force matrix and their density vector, each pair
\* different.
C23_Witness ==
    /\ \A e \in Zones : elmat[e] # Unassembled /\ elvect[e] # Unassembled
    /\ elmat[0] # elmat[1]
    /\ elvect[0] # elvect[1]
    /\ \E s2 \in StressElsewhere(stressJinvT, 0) : s2 # stressJinvT
    /\ \E w2 \in WeightsElsewhere(rho0DetJ0w, 0) : w2 # rho0DetJ0w

\* C24: the density vector of zone e.  Every assembled elvect[e] has one
\* entry per dof of the zone, and entry j is the sum over the points q of
\* the zone of shape_j(q) * rho0DetJ0w(e*nqp + q), the weight of
\* initialization.
C24_DensityVectorEntries ==
    \A e \in Zones :
        (elvect[e] # Unassembled) =>
            /\ DOMAIN elvect[e] = 0..1
            /\ \A j \in 0..1 :
                   elvect[e][j] =
                       SumOver([q \in 0..(NQP - 1) |->
                                   CalcShape(j, q) * rho0DetJ0w[e * NQP + q]],
                               0..(NQP - 1))

\* C24 witness: with non-uniform weights the second zone is assembled, and
\* its vector is not the one the weights of the first zone give.
C24_Witness ==
    /\ elvect[1] # Unassembled
    /\ elvect[1] # DensityElementVect(rho0DetJ0w, 0)
    /\ \E j \in 0..1 : elvect[1][j] > 0

(***************************************************************************)
(* Claims about the time-step estimate (checked under SpecEstimate).       *)
(***************************************************************************)
\* elementSizeEstimate / characteristicSpeed * CFL at every quadrature
\* point of every partition
PointEstimates ==
    {RMul(RDiv(R(h0, 1), rk[q].speed[k]), cfl) :
         q \in Parts, k \in 0..(NQP - 1)}

\* C21: TimeStepEstimate is the global minimum.  Once the estimate has
\* returned on a partition, the value it returned is the value of
\* (elementSizeEstimate / characteristicSpeed) * CFL at some quadrature
\* point of some partition and is no larger than the value at any
\* quadrature point of any partition, computed from the speeds the caches
\* hold; and any two partitions on which it has returned got the same value.
C21_GlobalMinimum ==
    \A p \in Parts :
        (rk[p].pc = "loop") =>
            /\ rk[p].dt \in PointEstimates
            /\ \A v \in PointEstimates : RLeq(rk[p].dt, v)
            /\ \A q \in Parts : (rk[q].pc = "loop") => (rk[q].dt = rk[p].dt)

\* C21 witness: the estimate has returned on both partitions; the speeds
\* differ inside the first partition, and the minimum over the second
\* partition alone is larger than the value returned.
C21_Witness ==
    /\ \A p \in Parts : rk[p].pc = "loop"
    /\ rk[1].speed[0] # rk[1].speed[1]
    /\ RLess(rk[2].dt, LocalEstimate(rk[2].speed))

(***************************************************************************)
(* Further claims about the mass operator (checked under SpecMass).        *)
(***************************************************************************)
\* C25: Apply is P*M*P.  When Mult(x, y) returns, every entry of y at a
\* pinned dof is 0 and every other entry equals the same entry of the mass
\* action applied to the copy of x whose pinned entries are zeroed; with a
\* local pinned-dof count of zero, y is the plain mass action on x.
C25_ApplyIsPMP ==
    [][MultReturns =>
         LET Px == [i \in Dofs |-> IF i \in PinnedDofs THEN 0 ELSE x[i]]
             MPx == MassAction(rho0DetJ0w, Px)
         IN  /\ \A i \in Dofs :
                    y'[i] = IF i \in PinnedDofs THEN 0 ELSE MPx[i]
             /\ (ess_tdofs_count = 0) => (y' = MassAction(rho0DetJ0w, x))]_vars

\* C25 witness: Mult has returned with two dofs pinned, the input not zero
\* at either of them, and the result not zero at the remaining dof.
C25_Witness ==
    /\ mpc = "Mult"
    /\ mfault = "none"
    /\ ess_tdofs_count = 2
    /\ \A p \in Range(ess_tdofs) : x[p] # 0 /\ y[p] = 0
    /\ \E i \in Dofs \ Range(ess_tdofs) : y[i] # 0

\* vectors with entries of either sign
SignedVectors == [Dofs -> {-1, 0, 1}]

\* the inner product of two vectors
Dot(v, z) == SumOver([i \in Dofs |-> v[i] * z[i]], Dofs)

\* C26: Apply is symmetric positive semi-definite.  With the operator set
\* up on positive weights (a symmetric positive semi-definite mass matrix)
\* and whatever dofs are pinned: when Mult(x, y) has returned,
\* <y, z> = <x, Apply(z)> for every vector z, <y, x> >= 0, and
\* <Apply(z), z> >= 0 for every vector z, of entries of either sign.
C26_SymmetricPSD ==
    (mpc = "Mult" /\ mfault = "none") =>
        /\ Dot(y, x) >= 0
        /\ \A z \in SignedVectors :
               LET Az == MultY(z, ess_tdofs_count, ess_tdofs, rho0DetJ0w)
               IN  /\ Dot(y, z) = Dot(x, Az)
                   /\ Dot(Az, z) >= 0

\* C26 witness: Mult has returned with one dof pinned, on non-uniform
\* weights, and <y, x> is positive.
C26_Witness ==
    /\ mpc = "Mult"
    /\ mfault = "none"
    /\ ess_tdofs_count = 1
    /\ rho0DetJ0w = [k \in QuadPoints |-> 1 + (k % 3)]
    /\ Dot(y, x) > 0

(***************************************************************************)
(* Further claims about the time loop (checked under SpecStep).            *)
(***************************************************************************)
\* C27 (as claimed): step cap.  With a maximum step count max_tsteps >= 0
\* the number of integrator steps taken, accepted and rejected together,
\* never exceeds max_tsteps, whatever estimates are returned.
C27_AtMostCapInvocations ==
    (max_tsteps >= 0) => (steps <= max_tsteps)

\* C29: step-size evolution.  The step size is positive at every integrator
\* invocation.  From one invocation to the next it changes only in three
\* ways: the decision multiplies it by 0.85, and then the attempt was
\* rejected (dt_est < dt), or by 1.02, and then the step was accepted with
\* dt_est > 1.25*dt, or leaves it alone; and the start of the next
\* iteration leaves it alone or clamps it to t_final - t, never raising it.
\* So after a rejection the next invocation uses a strictly smaller step
\* size, all along a run of consecutive rejections.
C29_StepSizeEvolution ==
    /\ [](pc = "step" => RLess(Zero, dt))
    /\ [][/\ (pc \in {"step", "estimate"}) => (dt' = dt)
          /\ (pc = "decide") =>
                 \/ dt' = dt /\ ~RLess(dt_est, dt)
                 \/ /\ dt' = RMul(R(17, 20), dt)
                    /\ RLess(dt_est, dt)
                    /\ RLess(dt', dt)
                 \/ /\ dt' = RMul(R(51, 50), dt)
                    /\ RLess(RMul(R(5, 4), dt), dt_est)
          /\ (pc = "decide" /\ RLess(dt_est, dt)) =>
                 dt' = RMul(R(17, 20), dt)
          /\ (pc = "loop") =>
                 \/ dt' = dt
                 \/ dt' = RSub(t_final, t) /\ RLess(dt', dt)]_vars

\* C29 witness: the third invocation in a row of the first iteration is
\* about to start, after two rejections, with a step size below the first.
C29_Witness ==
    /\ pc = "step"
    /\ ti = 1
    /\ steps = 2
    /\ t = Zero
    /\ RLess(dt, t_final)
    /\ RLess(Epsilon, dt)

(***************************************************************************)
(* Further claims about the parallel run (checked under SpecPar).          *)
(***************************************************************************)
\* the loop variables of a partition
LoopLocals(r) == <<r.t, r.dt, r.ti, r.steps, r.last_step>>

\* partition r is about to abort on the step-size floor
AbortsOnFloor(r) ==
    r.pc = "decide" /\ StepRejected(r.dt_est, r.dt) /\ BelowFloor(Shrink(r.dt))

C30_GlobalCountRequired ==
    [][(job = "running" /\ AllIn("sum")) =>
         IF SumOver([p \in Parts |-> rk[p].cnt], Parts) = 0
         THEN job' = "aborted" /\ \A p \in Parts : rk'[p].pc = "dead"
         ELSE /\ job' = "running"
              /\ \A p \in Parts :
                    /\ rk'[p].pc \in {"set", "start"}
                    /\ rk'[p].calls = rk[p].calls + 1
                    /\ rk'[p].cnt = rk[p].cnt
                    /\ (rk[p].cnt = 0) =>
                           \A v \in Vectors :
                               /\ EliminateRHSResult(v, rk'[p].cnt,
                                                     rk'[p].ess) = v
                               /\ MultY(v, rk'[p].cnt, rk'[p].ess,
                                        rho0DetJ0w) =
                                      MassAction(rho0DetJ0w, v)]_vars

\* C30 witness: the first call has returned on both partitions; the first
\* passed no dofs and holds an array of the global size, the second passed
\* all the pinned dofs there are.
C30_Witness ==
    /\ job = "running"
    /\ \A p \in Parts : rk[p].calls = 1 /\ rk[p].pc = "set"
    /\ rk[1].cnt = 0
    /\ rk[2].cnt > 0
    /\ Len(rk[1].ess) = rk[2].cnt
    /\ rk[1].ess # rk[2].ess

====
